---- MODULE Spec2Model ----
(***************************************************************************)
(* Fleet coordination and navigation engine of the SimRacing repository.   *)
(*                                                                         *)
(* Seven state machines share this module:                                 *)
(*   RegistrySpec    - SimRacingController/orchestrator.py: the slot       *)
(*                     table, the heartbeat handler and service discovery; *)
(*   FleetSpec       - the same slot table receiving the heartbeats of one *)
(*                     machine more than there are slots;                  *)
(*   ConcurrentRegistrySpec - the same, with each heartbeat handled on a   *)
(*                     thread of its own;                                  *)
(*   CoordinatorSpec - SimRacingController/orchestrator.py: the slot table *)
(*                     fed by heartbeats and the two-phase start handlers; *)
(*   ClientSpec      - SimRacingClient/src/simracing_client.py:            *)
(*                     SETUP_STATE, the command handlers and the launch    *)
(*                     threads of one machine;                             *)
(*   HeartbeatSpec   - SimRacingClient/src/simracing_client.py: the same   *)
(*                     machine with its heartbeat thread running;          *)
(*   NavSpec         - SimRacingClient/src/utils/screen_navigator.py: the  *)
(*                     template-matching navigation engine.                *)
(***************************************************************************)
EXTENDS Integers, Sequences, FiniteSets, TLC

(***************************************************************************)
(* Bounds of the model.                                                    *)
(***************************************************************************)
NumMachines == 3
MaxTime == 15
MaxPlayers == 2
MaxStartRequests == 2
MaxLaunchThreads == 2
NumNavConfigs == 2
MaxSteps == 3
MaxOptions == 2
max_retries == 2
previous_step_retries == 1

(***************************************************************************)
(* Program constants.                                                      *)
(***************************************************************************)
NumSlots == 4
LIVENESS_WINDOW == 15
HEARTBEAT_INTERVAL == 5

VARIABLES
    \* ---- orchestrator ----
    SLOTS,              \* slot number -> the registration it holds (setup_id 0: None)
    SETUP_TO_SLOT,      \* setup_id -> slot number (0: no entry)
    discovered_setups,  \* setup ids the mDNS listener currently knows
    now,                \* time.time() of the orchestrator, in seconds
    sent,               \* requests sent to machines by the last start handler
    response,           \* HTTP response of the last start handler
    request,            \* history: the slot numbers named by the request the
                        \* start handler that just ran was given
    hb_handler,         \* machine -> where the heartbeat handler thread serving
                        \* its heartbeat is, and its locals
    \* ---- one machine's client ----
    SETUP_STATE,        \* the SETUP_STATE dictionary
    cancel_navigation,  \* the cancel_navigation event: TRUE when set
    process_running,    \* the game's process exists (is_process_running)
    start_req,          \* start request -> where its handler is, and its locals
    stop_req,           \* where the stop handler is, and its local `game`
    launch_thread,      \* launch thread -> where _launch_game_async is
    heartbeat,          \* where the heartbeat thread is, and its locals
    payload,            \* the heartbeat payload posted by the step just taken
    client_response,    \* HTTP response of the client handler that just answered
    request_json,       \* the body of the configure request just handled
    stopped_launches,   \* history: the launch threads in flight when the last
                        \* stop request arrived in status starting, emptied by
                        \* any later configure or start request
    cancelled_launches, \* history: while cancel_navigation stays set, the
                        \* launch threads that were in flight when a stop
                        \* request last set it
    launch_step,        \* what the launch thread step just taken did: the
                        \* clear() of the event, or the return of launch()
    held_sessions,      \* history: the session ids SETUP_STATE has held
                        \* together with the status the heartbeat thread read
                        \* for the payload it is building or has just posted,
                        \* since that read
    superseded_launches, \* history: the launch threads in flight that a stop
                        \* request, handled to its end, and then a configure
                        \* request have followed
    launches_spawned,   \* history: the launch threads started since the last
                        \* configure request, counted as long as a start
                        \* request that passed its check is yet to start one
    \* ---- the navigation engine ----
    steps,              \* the sequence being executed: per step, its options
    nav,                \* where execute_navigation_sequence is, and its locals
    event,              \* the last template probe or key press of the engine
    prev_event,         \* the probe or key press before it
    visits,             \* history: the step index of each attempt_step_options call
    unresolved,         \* history: the steps that stayed failed after recovery
    first_try,          \* history: every step so far matched on its first attempt
    begun_cancelled,    \* history: cancel_navigation was set when the current
                        \* iteration of the step loop began
    key_presses         \* history: how often the key_press action of the
                        \* loop's step and of the step before it was executed

orchVars == <<SLOTS, SETUP_TO_SLOT, discovered_setups, now, sent, response,
              request, hb_handler>>
clientVars == <<SETUP_STATE, process_running, start_req, stop_req, launch_thread,
                heartbeat, payload, client_response, request_json,
                stopped_launches,
                cancelled_launches, launch_step, held_sessions,
                superseded_launches, launches_spawned>>
navVars == <<steps, nav, event, prev_event, visits, unresolved, first_try,
            begun_cancelled, key_presses>>
vars == <<orchVars, clientVars, cancel_navigation, navVars>>

\* What a step of the orchestrator, of a machine's client and of the
\* navigation engine leaves alone.
clientSide == <<clientVars, cancel_navigation, navVars>>
orchSide == <<orchVars, navVars>>
engineSide == <<orchVars, clientVars>>

(***************************************************************************)
(* Orchestrator: data                                                      *)
(***************************************************************************)
\* A machine is identified by its setup_id, "address:port".
Machines == 1..NumMachines
SlotNumbers == 1..NumSlots
\* MACHINE_CONFIG.id of each machine: machines 1..NumMachines-1 carry the ids
\* 1.., the last machine an id outside 1..4.
MachineId(setup_id) == IF setup_id = NumMachines THEN NumSlots + 1 ELSE setup_id
\* Slot numbers a request may name: the four slots and one number that is no slot.
RequestSlots == 1..(NumSlots + 1)

EmptySlot == [setup_id |-> 0, hb_name |-> 0, hb_id |-> 0, last_seen |-> 0]

\* `response` and `sent` describe the step just taken: the HTTP response of the
\* handler that ran and the requests it sent to machines (NoResponse and <<>>
\* after a step that is no HTTP request).
NoResponse == [handler |-> "none", code |-> 0, slot |-> 0, results |-> <<>>,
               configured_count |-> 0, success_count |-> 0]

\* A window that still counts a heartbeat exactly LIVENESS_WINDOW seconds old.
is_online_inclusive(slot) ==
    IF slot.setup_id = 0
    THEN FALSE
    ELSE (now - slot.last_seen) <= LIVENESS_WINDOW

\* Slot.is_online
is_online(slot) ==
    IF slot.setup_id = 0
    THEN FALSE
    ELSE (now - slot.last_seen) < LIVENESS_WINDOW

\* Slot.get_setup_id (0 stands for None)
get_setup_id(slot) == slot.setup_id

Min(S) == CHOOSE x \in S : \A y \in S : x <= y

(***************************************************************************)
(* Orchestrator: slot assignment, heartbeats, discovery                    *)
(***************************************************************************)
\* The "find first available slot" loop of assign_setup_to_slot (0: none found).
FirstAvailableSlot(setup_id) ==
    LET avail == {i \in SlotNumbers :
                     SLOTS[i].setup_id = 0 \/ get_setup_id(SLOTS[i]) = setup_id}
    IN  IF avail = {} THEN 0 ELSE Min(avail)

\* assign_setup_to_slot: the slot number chosen for a setup (0: None).
assign_setup_to_slot(setup_id, machine_id) ==
    IF 1 <= machine_id /\ machine_id <= 4
    THEN machine_id
    ELSE FirstAvailableSlot(setup_id)

\* The response of receive_heartbeat for the slot number it ended with.
HeartbeatResponse(slot_num) ==
    [NoResponse EXCEPT !.handler = "heartbeat",
                       !.code = IF slot_num # 0 THEN 200 ELSE 503,
                       !.slot = slot_num]

\* POST /api/heartbeat from setup_id carrying machine id `id`.
receive_heartbeat(setup_id, id) ==
    /\ IF SETUP_TO_SLOT[setup_id] # 0
       THEN LET slot_num == SETUP_TO_SLOT[setup_id] IN
            /\ SLOTS' = IF SLOTS[slot_num].setup_id # 0
                        THEN [SLOTS EXCEPT ![slot_num].hb_name = setup_id,
                                           ![slot_num].hb_id = id,
                                           ![slot_num].last_seen = now]
                        ELSE SLOTS
            /\ UNCHANGED SETUP_TO_SLOT
            /\ response' = HeartbeatResponse(slot_num)
       ELSE LET slot_num == assign_setup_to_slot(setup_id, id) IN
            /\ IF slot_num # 0
               THEN /\ SLOTS' = [SLOTS EXCEPT ![slot_num] =
                                    [setup_id |-> setup_id, hb_name |-> setup_id,
                                     hb_id |-> id, last_seen |-> now]]
                    /\ SETUP_TO_SLOT' = [SETUP_TO_SLOT EXCEPT ![setup_id] = slot_num]
               ELSE UNCHANGED <<SLOTS, SETUP_TO_SLOT>>
            /\ response' = HeartbeatResponse(slot_num)
    /\ sent' = <<>> /\ request' = <<>>
    /\ UNCHANGED <<discovered_setups, now, hb_handler>>
    /\ UNCHANGED clientSide

\* SetupListener.add_service
add_service(setup_id) ==
    /\ setup_id \notin discovered_setups
    /\ discovered_setups' = discovered_setups \cup {setup_id}
    /\ sent' = <<>> /\ response' = NoResponse /\ request' = <<>>
    /\ UNCHANGED <<SLOTS, SETUP_TO_SLOT, now, hb_handler>>
    /\ UNCHANGED clientSide

\* SetupListener.remove_service, for the service name of a discovered setup.
remove_service(setup_id) ==
    /\ setup_id \in discovered_setups
    /\ IF SETUP_TO_SLOT[setup_id] # 0
       THEN /\ SLOTS' = [SLOTS EXCEPT ![SETUP_TO_SLOT[setup_id]] = EmptySlot]
            /\ SETUP_TO_SLOT' = [SETUP_TO_SLOT EXCEPT ![setup_id] = 0]
       ELSE UNCHANGED <<SLOTS, SETUP_TO_SLOT>>
    /\ discovered_setups' = discovered_setups \ {setup_id}
    /\ sent' = <<>> /\ response' = NoResponse /\ request' = <<>>
    /\ UNCHANGED <<now, hb_handler>>
    /\ UNCHANGED clientSide

(***************************************************************************)
(* Orchestrator: heartbeats handled on concurrent threads                  *)
(*                                                                         *)
(* app.run serves each request on a thread of its own and the handler      *)
(* takes no lock: between the choice of a slot and the two assignments     *)
(* that bind it (the __setattr__ of the Slot model is a call) the thread   *)
(* of another heartbeat may run.                                           *)
(***************************************************************************)
IdleHandler == [pc |-> "idle", id |-> 0, slot_num |-> 0]

\* The ids a heartbeat of a machine may carry: the one MachineId gives it, or
\* an id outside 1..4 of its own.
ConfiguredIds(setup_id) == {MachineId(setup_id), NumSlots + setup_id}

\* receive_heartbeat up to the choice of a slot (lines 247-170): a machine
\* that has a slot gets its heartbeat stored and is answered; for a machine
\* without one the slot is chosen, or 503 is answered when there is none.
heartbeat_lookup(setup_id, id) ==
    /\ hb_handler[setup_id].pc = "idle"
    /\ IF SETUP_TO_SLOT[setup_id] # 0
       THEN LET slot_num == SETUP_TO_SLOT[setup_id] IN
            /\ SLOTS' = IF SLOTS[slot_num].setup_id # 0
                        THEN [SLOTS EXCEPT ![slot_num].hb_name = setup_id,
                                           ![slot_num].hb_id = id,
                                           ![slot_num].last_seen = now]
                        ELSE SLOTS
            /\ response' = HeartbeatResponse(slot_num)
            /\ UNCHANGED hb_handler
       ELSE LET slot_num == assign_setup_to_slot(setup_id, id) IN
            /\ UNCHANGED SLOTS
            /\ IF slot_num # 0
               THEN /\ hb_handler' = [hb_handler EXCEPT ![setup_id] =
                                         [pc |-> "assign", id |-> id,
                                          slot_num |-> slot_num]]
                    /\ response' = NoResponse
               ELSE /\ response' = HeartbeatResponse(slot_num)
                    /\ UNCHANGED hb_handler
    /\ sent' = <<>> /\ request' = <<>>
    /\ UNCHANGED <<SETUP_TO_SLOT, discovered_setups, now>>
    /\ UNCHANGED clientSide

\* receive_heartbeat from the two assignments of assign_setup_to_slot on
\* (lines 173-176, 298-300): the slot is bound and the heartbeat answered.
heartbeat_assign(setup_id) ==
    /\ hb_handler[setup_id].pc = "assign"
    /\ LET slot_num == hb_handler[setup_id].slot_num IN
       /\ SLOTS' = [SLOTS EXCEPT ![slot_num] =
                       [setup_id |-> setup_id, hb_name |-> setup_id,
                        hb_id |-> hb_handler[setup_id].id, last_seen |-> now]]
       /\ SETUP_TO_SLOT' = [SETUP_TO_SLOT EXCEPT ![setup_id] = slot_num]
       /\ response' = HeartbeatResponse(slot_num)
    /\ hb_handler' = [hb_handler EXCEPT ![setup_id] = IdleHandler]
    /\ sent' = <<>> /\ request' = <<>>
    /\ UNCHANGED <<discovered_setups, now>>
    /\ UNCHANGED clientSide

\* time.time() advances by one heartbeat period.
Tick ==
    /\ now + HEARTBEAT_INTERVAL <= MaxTime
    /\ now' = now + HEARTBEAT_INTERVAL
    /\ sent' = <<>> /\ response' = NoResponse /\ request' = <<>>
    /\ UNCHANGED <<SLOTS, SETUP_TO_SLOT, discovered_setups, hb_handler>>
    /\ UNCHANGED clientSide

(***************************************************************************)
(* Orchestrator: the two-phase start handlers                              *)
(***************************************************************************)
\* What a request to a machine comes back with: response.ok, a non-OK
\* response, or a requests.exceptions.RequestException.
Outcomes == {"ok", "not_ok", "error"}

RequestLists == UNION {[1..n -> RequestSlots] : n \in 0..MaxPlayers}

Indices(n) == [i \in 1..n |-> i]

\* The request sent to the machine of slot_num, with what came back.
Request(kind, slot_num, role, outcome) ==
    [kind |-> kind, slot |-> slot_num, setup_id |-> get_setup_id(SLOTS[slot_num]),
     role |-> role, outcome |-> outcome]

\* Role of the i-th listed slot in start_multiplayer.
RoleOf(i) == IF i = 1 THEN "host" ELSE "join"

\* A phase 1 that sends a stop request after each configure request that
\* came back OK.
Phase1Requests_then_stop(slot_numbers, cfg) ==
    [k \in 1..(2 * Len(slot_numbers)) |->
        LET i == (k + 1) \div 2 IN
        IF k % 2 = 1 \/ cfg[i] # "ok"
        THEN Request("configure", slot_numbers[i], RoleOf(i), cfg[i])
        ELSE Request("stop", slot_numbers[i], RoleOf(i), "ok")]

\* Phase 1 of start_multiplayer: one configure request per listed slot.
Phase1Requests(slot_numbers, cfg) ==
    [i \in 1..Len(slot_numbers) |->
        Request("configure", slot_numbers[i], RoleOf(i), cfg[i])]

\* configured_slots after phase 1, as positions of slot_numbers.
ConfiguredSlots(slot_numbers, cfg) ==
    SelectSeq(Indices(Len(slot_numbers)), LAMBDA i : cfg[i] = "ok")

\* results after phase 1: one entry per failed configure.
Phase1Results(slot_numbers, cfg) ==
    LET failed == SelectSeq(Indices(Len(slot_numbers)), LAMBDA i : cfg[i] # "ok")
    IN  [k \in 1..Len(failed) |->
            [slot |-> slot_numbers[failed[k]], role |-> RoleOf(failed[k]),
             status |-> IF cfg[failed[k]] = "not_ok"
                        THEN "failed_configure" ELSE "error_configure"]]

\* A gate that lets phase 2 run as soon as one slot was configured.
AllConfigured_AnyConfigured(configured_slots, slot_numbers) ==
    Len(configured_slots) > 0

\* The gate between the phases: TRUE when phase 2 may run.
AllConfigured(configured_slots, slot_numbers) ==
    ~(Len(configured_slots) < Len(slot_numbers))

\* Phase 2 of start_multiplayer: one start request per configured slot.
Phase2Requests(slot_numbers, configured_slots, st) ==
    [k \in 1..Len(configured_slots) |->
        Request("start", slot_numbers[configured_slots[k]],
                RoleOf(configured_slots[k]), st[configured_slots[k]])]

Phase2Results(slot_numbers, configured_slots, st) ==
    [k \in 1..Len(configured_slots) |->
        [slot |-> slot_numbers[configured_slots[k]],
         role |-> RoleOf(configured_slots[k]),
         status |-> CASE st[configured_slots[k]] = "ok" -> "success"
                      [] st[configured_slots[k]] = "not_ok" -> "failed_start"
                      [] OTHER -> "error_start"]]

SuccessCount(results) ==
    Cardinality({k \in 1..Len(results) : results[k].status = "success"})

\* POST /api/start_multiplayer {slots: slot_numbers}
start_multiplayer(slot_numbers) ==
    /\ IF Len(slot_numbers) < 2
          \/ \E i \in 1..Len(slot_numbers) :
                \/ slot_numbers[i] \notin SlotNumbers
                \/ ~is_online(SLOTS[slot_numbers[i]])
       THEN /\ sent' = <<>>
            /\ response' = [NoResponse EXCEPT !.handler = "start_multiplayer",
                                              !.code = 400]
       ELSE \E cfg \in [1..Len(slot_numbers) -> Outcomes] :
            LET configured_slots == ConfiguredSlots(slot_numbers, cfg)
                results1 == Phase1Results(slot_numbers, cfg)
            IN  IF ~AllConfigured(configured_slots, slot_numbers)
                THEN /\ sent' = Phase1Requests(slot_numbers, cfg)
                     /\ response' = [handler |-> "start_multiplayer", code |-> 400,
                                     slot |-> 0, results |-> results1,
                                     configured_count |-> Len(configured_slots),
                                     success_count |-> 0]
                ELSE \E st \in [1..Len(slot_numbers) -> Outcomes] :
                     LET results == results1 \o
                             Phase2Results(slot_numbers, configured_slots, st)
                     IN  /\ sent' = Phase1Requests(slot_numbers, cfg) \o
                                    Phase2Requests(slot_numbers, configured_slots, st)
                         /\ response' = [handler |-> "start_multiplayer",
                                         code |-> 200, slot |-> 0,
                                         results |-> results,
                                         configured_count |-> Len(configured_slots),
                                         success_count |-> SuccessCount(results)]
    /\ request' = slot_numbers
    /\ UNCHANGED <<SLOTS, SETUP_TO_SLOT, discovered_setups, now, hb_handler>>
    /\ UNCHANGED clientSide

\* POST /api/start_slot {slot: slot_number, mode: mode}
start_slot(slot_number, mode) ==
    /\ IF slot_number \notin SlotNumbers \/ ~is_online(SLOTS[slot_number])
       THEN /\ sent' = <<>>
            /\ response' = [NoResponse EXCEPT !.handler = "start_slot", !.code = 400]
       ELSE LET role == IF mode = "singleplayer" THEN "singleplayer" ELSE "host" IN
            \E cfg \in Outcomes :
               IF cfg # "ok"
               THEN /\ sent' = <<Request("configure", slot_number, role, cfg)>>
                    /\ response' = [NoResponse EXCEPT !.handler = "start_slot",
                                                      !.code = 500]
               ELSE \E st \in Outcomes :
                    /\ sent' = <<Request("configure", slot_number, role, cfg),
                                 Request("start", slot_number, role, st)>>
                    /\ response' = [NoResponse EXCEPT
                                       !.handler = "start_slot",
                                       !.code = IF st = "ok" THEN 200 ELSE 500,
                                       !.configured_count = 1,
                                       !.success_count = IF st = "ok" THEN 1 ELSE 0]
    /\ request' = <<slot_number>>
    /\ UNCHANGED <<SLOTS, SETUP_TO_SLOT, discovered_setups, now, hb_handler>>
    /\ UNCHANGED clientSide

OrchInit ==
    /\ SLOTS = [i \in SlotNumbers |-> EmptySlot]
    /\ SETUP_TO_SLOT = [m \in Machines |-> 0]
    /\ discovered_setups = {}
    /\ now = 0
    /\ sent = <<>>
    /\ response = NoResponse
    /\ request = <<>>
    /\ hb_handler = [m \in Machines |-> IdleHandler]

(***************************************************************************)
(* Client: data                                                            *)
(*                                                                         *)
(* Threads of the client run interleaved: the Flask handlers, the launch   *)
(* thread and the heartbeat thread share SETUP_STATE without a lock.  A    *)
(* step of the model is a block of consecutive reads and assignments of    *)
(* one thread; logging, process and network calls and thread starts        *)
(* separate the steps.                                                     *)
(***************************************************************************)
None == "None"
Statuses == {"idle", "configured", "starting", "running"}

\* GAME_REGISTRY holds f1_22; a configure request may name any game.
RegisteredGames == {"f1_22"}

\* The bodies of the configure requests a machine receives.
ConfigurePayloads ==
    { [game |-> "f1_22", session_id |-> "multi-1", role |-> "host",
       player_count |-> "2", host_ip |-> "10.0.0.1"],
      [game |-> "f1_22", session_id |-> "multi-2", role |-> "join",
       player_count |-> "2", host_ip |-> "10.0.0.1"],
      [game |-> "unknown_game", session_id |-> "single-3", role |-> "singleplayer",
       player_count |-> None, host_ip |-> None] }

InitialState ==
    [status |-> "idle", current_game |-> None, session_id |-> None,
     role |-> None, player_count |-> None, host_ip |-> None]

\* The five assignments that reset the state (host_ip is not among them).
Reset(state) ==
    [state EXCEPT !.status = "idle", !.current_game = None, !.session_id = None,
                  !.role = None, !.player_count = None]

StartRequests == 1..MaxStartRequests
LaunchThreads == 1..MaxLaunchThreads

NoReply == [handler |-> "none", code |-> 0]
IdleRequest == [pc |-> "idle", game |-> None]
\* `executed` is history: the navigation configs the thread's launch() has
\* run so far, each with what load_and_execute_navigation came back with.
NoThread == [pc |-> "none", game |-> None, config_index |-> 0, executed |-> <<>>]
IdleHeartbeat == [pc |-> "wait", running |-> FALSE, actual_game |-> None,
                  status |-> None]
NoPayload == [status |-> None, current_game |-> None, session_id |-> None]
NoRequest == [game |-> None, session_id |-> None, role |-> None,
              player_count |-> None, host_ip |-> None]

\* Launch threads that were started and have not finished.
InFlight == {t \in LaunchThreads : launch_thread[t].pc # "none"}

\* cancelled_launches after a step of the client: the threads in flight when
\* the step is the cancel_navigation.set() of a stop request, nothing once the
\* event is cleared, and otherwise what is left of them.
CancelledLaunchesNext ==
    IF stop_req.pc = "idle" /\ stop_req'.pc = "signalled"
    THEN InFlight
    ELSE IF ~cancel_navigation'
         THEN {}
         ELSE {t \in cancelled_launches : launch_thread'[t].pc # "none"}

\* The pairs the state passes through in a step: the assignments of a block
\* are separate statements (configure writes the session id before the
\* status, the resets write the status first), so the pairs that mix the old
\* and the new value count as held.
StepPairs ==
    {SETUP_STATE.status, SETUP_STATE'.status}
        \X {SETUP_STATE.session_id, SETUP_STATE'.session_id}

\* held_sessions after a step of the client: between the payload's read of
\* the status and its post, every session id the state holds together with
\* the status that was read is added; the post keeps them, any other step
\* drops them.
HeldSessionsNext ==
    IF heartbeat'.pc = "send"
    THEN IF heartbeat.pc = "send"
         THEN held_sessions
                 \cup {pair[2] : pair \in {p \in StepPairs : p[1] = heartbeat.status}}
         ELSE {SETUP_STATE'.session_id}
    ELSE IF heartbeat.pc = "send" THEN held_sessions ELSE {}

\* superseded_launches after a step of the client: a configure request adds
\* the launches that were in flight in status starting when a stop request
\* arrived, once the stop handler has finished; a launch that ends leaves.
SupersededLaunchesNext ==
    LET added == IF request_json' # NoRequest /\ stop_req.pc = "idle"
                 THEN stopped_launches ELSE {}
    IN  {t \in superseded_launches \cup added : launch_thread'[t].pc # "none"}

\* The step starts a launch thread and answers the start request with 200.
Spawns == client_response' = [handler |-> "start", code |-> 200]

\* launches_spawned after a step of the client: a configure request sets it
\* back to 0, a start request that starts a launch thread adds 1.  Once no
\* start request is past its check the count is dropped: the status is no
\* longer configured, and a later start request is turned away until the
\* next configure request.
LaunchesSpawnedNext ==
    IF request_json' # NoRequest \/ \A r \in StartRequests : start_req'[r].pc # "checked"
    THEN 0
    ELSE IF Spawns THEN launches_spawned + 1 ELSE launches_spawned

\* `stale` tells that a clear() found the event set by a stop request that
\* came before the thread was started; `executed` holds, when launch() ends,
\* the navigation configs it ran.
NoLaunchStep == [kind |-> "none", was_set |-> FALSE, stale |-> FALSE,
                 cause |-> "none", value |-> "none", executed |-> <<>>]

(***************************************************************************)
(* Client: configure and start                                             *)
(***************************************************************************)
\* A configure that leaves the status as it is.
configure_assignments_without_status(state, data) ==
    [state EXCEPT !.current_game = data.game, !.session_id = data.session_id,
                  !.role = data.role, !.player_count = data.player_count,
                  !.host_ip = data.host_ip]

\* Lines 172-177: the six assignments of configure.
configure_assignments(state, data) ==
    [state EXCEPT !.current_game = data.game, !.session_id = data.session_id,
                  !.role = data.role, !.player_count = data.player_count,
                  !.host_ip = data.host_ip, !.status = "configured"]

\* POST /api/configure
configure(data) ==
    /\ SETUP_STATE' = configure_assignments(SETUP_STATE, data)
    /\ client_response' = [handler |-> "configure", code |-> 200]
    /\ stopped_launches' = {}
    /\ UNCHANGED <<cancel_navigation, process_running, start_req, stop_req,
                   launch_thread, heartbeat>>
    /\ payload' = NoPayload
    /\ cancelled_launches' = CancelledLaunchesNext
    /\ held_sessions' = HeldSessionsNext
    /\ request_json' = data
    /\ superseded_launches' = SupersededLaunchesNext
    /\ launches_spawned' = LaunchesSpawnedNext
    /\ launch_step' = NoLaunchStep
    /\ UNCHANGED orchSide

\* A check that only turns an idle machine away.
is_configured_unless_idle(status) == status # "idle"

\* A start request that goes on to launch a thread: the negation of line 225.
is_configured(status) == ~(status # "configured")

\* POST /api/start, up to the log line before the status update: the check of
\* the status and the reads of the launch arguments.
start_game_check(r) ==
    /\ start_req[r].pc = "idle"
    /\ IF is_configured(SETUP_STATE.status)
       THEN /\ start_req' = [start_req EXCEPT ![r] =
                               [pc |-> "checked", game |-> SETUP_STATE.current_game]]
            /\ client_response' = NoReply
       ELSE /\ client_response' = [handler |-> "start", code |-> 400]
            /\ UNCHANGED start_req
    /\ stopped_launches' = {}
    /\ UNCHANGED <<SETUP_STATE, cancel_navigation, process_running, stop_req,
                   launch_thread, heartbeat>>
    /\ payload' = NoPayload
    /\ cancelled_launches' = CancelledLaunchesNext
    /\ held_sessions' = HeldSessionsNext
    /\ request_json' = NoRequest
    /\ superseded_launches' = SupersededLaunchesNext
    /\ launches_spawned' = LaunchesSpawnedNext
    /\ launch_step' = NoLaunchStep
    /\ UNCHANGED orchSide

\* POST /api/start, from the status update on: status becomes starting, the
\* launch thread is started, the request is answered.
start_game_spawn(r) ==
    /\ start_req[r].pc = "checked"
    /\ LaunchThreads \ InFlight # {}
    /\ LET t == Min(LaunchThreads \ InFlight) IN
       launch_thread' = [launch_thread EXCEPT ![t] =
                            [pc |-> "clear", game |-> start_req[r].game,
                             config_index |-> 0, executed |-> <<>>]]
    /\ SETUP_STATE' = [SETUP_STATE EXCEPT !.status = "starting"]
    /\ start_req' = [start_req EXCEPT ![r] = IdleRequest]
    /\ client_response' = [handler |-> "start", code |-> 200]
    /\ stopped_launches' = {}
    /\ UNCHANGED <<cancel_navigation, process_running, stop_req, heartbeat>>
    /\ payload' = NoPayload
    /\ cancelled_launches' = CancelledLaunchesNext
    /\ held_sessions' = HeldSessionsNext
    /\ request_json' = NoRequest
    /\ superseded_launches' = SupersededLaunchesNext
    /\ launches_spawned' = LaunchesSpawnedNext
    /\ launch_step' = NoLaunchStep
    /\ UNCHANGED orchSide

(***************************************************************************)
(* Client: the launch thread (_launch_game_async and launcher.launch)      *)
(***************************************************************************)
\* The thread ends: its slot is free again.
ThreadEnds(t) == launch_thread' = [launch_thread EXCEPT ![t] = NoThread]

\* What launch() returns: False when the pre-launch configuration failed
\* (line 143), when the event was found set before a navigation config
\* (line 168) and when a navigation config failed (line 189), True after the
\* last navigation config (line 196).
LaunchReturn(cause) ==
    CASE cause = "pre_launch_failed" -> "False"
      [] cause = "cancelled" -> "False"
      [] cause = "failed" -> "False"
      [] cause = "completed" -> "True"

\* launch() returned, for the reason `cause`.
Returned(cause) ==
    [kind |-> "return", was_set |-> cancel_navigation, stale |-> FALSE,
     cause |-> cause, value |-> LaunchReturn(cause), executed |-> <<>>]

\* launch() raised an exception.
Raised ==
    [kind |-> "raise", was_set |-> cancel_navigation, stale |-> FALSE,
     cause |-> "exception", value |-> "exception", executed |-> <<>>]

\* launch() ended as `step` tells, having run the configs `executed`.
After(executed, step) == [step EXCEPT !.executed = executed]

\* _launch_game_async after launch(): status running on True, the reset on
\* False and in the except branch.
AfterLaunch(step) ==
    IF step.value = "True"
    THEN [SETUP_STATE EXCEPT !.status = "running"]
    ELSE Reset(SETUP_STATE)

\* A thread that leaves the event as it finds it.
not_cleared(is_set) == is_set

\* threading.Event.clear(): the event is no longer set.
clear(is_set) == FALSE

\* The first statement of the thread: cancel_navigation.clear().
launch_clear(t) ==
    /\ launch_thread[t].pc = "clear"
    /\ cancel_navigation' = clear(cancel_navigation)
    /\ launch_thread' = [launch_thread EXCEPT ![t].pc = "launch"]
    /\ client_response' = NoReply
    /\ UNCHANGED <<SETUP_STATE, process_running, start_req, stop_req, heartbeat,
                   stopped_launches>>
    /\ payload' = NoPayload
    /\ cancelled_launches' = CancelledLaunchesNext
    /\ held_sessions' = HeldSessionsNext
    /\ request_json' = NoRequest
    /\ superseded_launches' = SupersededLaunchesNext
    /\ launches_spawned' = LaunchesSpawnedNext
    /\ launch_step' = [NoLaunchStep EXCEPT
                          !.kind = "clear",
                          !.was_set = cancel_navigation,
                          !.stale = cancel_navigation /\ t \notin cancelled_launches]
    /\ UNCHANGED orchSide

\* launch() up to the navigation loop: an unknown game raises ValueError, the
\* pre-launch configuration or the process start may fail, otherwise the
\* game's process runs.
launch_process(t) ==
    /\ launch_thread[t].pc = "launch"
    /\ \/ /\ launch_thread[t].game \in RegisteredGames
          /\ process_running' = TRUE
          /\ launch_thread' = [launch_thread EXCEPT ![t].pc = "config",
                                                    ![t].config_index = 1]
          /\ UNCHANGED SETUP_STATE
          /\ launch_step' = NoLaunchStep
       \/ /\ launch_step' \in IF launch_thread[t].game \in RegisteredGames
                               THEN {Returned("pre_launch_failed"), Raised}
                               ELSE {Raised}
          /\ SETUP_STATE' = AfterLaunch(launch_step')
          /\ ThreadEnds(t)
          /\ UNCHANGED process_running
    /\ client_response' = NoReply
    /\ UNCHANGED <<cancel_navigation, start_req, stop_req, heartbeat,
                   stopped_launches>>
    /\ payload' = NoPayload
    /\ cancelled_launches' = CancelledLaunchesNext
    /\ held_sessions' = HeldSessionsNext
    /\ request_json' = NoRequest
    /\ superseded_launches' = SupersededLaunchesNext
    /\ launches_spawned' = LaunchesSpawnedNext
    /\ UNCHANGED orchSide

\* The cancellation check before each navigation config: launch() returns
\* False when the event is set, and the thread resets the state.
launch_config_begin(t) ==
    /\ launch_thread[t].pc = "config"
    /\ IF cancel_navigation
       THEN /\ launch_step' = After(launch_thread[t].executed, Returned("cancelled"))
            /\ SETUP_STATE' = AfterLaunch(launch_step')
            /\ ThreadEnds(t)
       ELSE /\ launch_thread' = [launch_thread EXCEPT ![t].pc = "navigating"]
            /\ launch_step' = NoLaunchStep
            /\ UNCHANGED SETUP_STATE
    /\ client_response' = NoReply
    /\ UNCHANGED <<cancel_navigation, process_running, start_req, stop_req,
                   heartbeat, stopped_launches>>
    /\ payload' = NoPayload
    /\ cancelled_launches' = CancelledLaunchesNext
    /\ held_sessions' = HeldSessionsNext
    /\ request_json' = NoRequest
    /\ superseded_launches' = SupersededLaunchesNext
    /\ launches_spawned' = LaunchesSpawnedNext
    /\ UNCHANGED orchSide

\* What load_and_execute_navigation comes back with.
NavigationOutcomes == {"success", "failure", "error"}

\* A loop that goes on to the next config whatever the last one returned.
series_aborts_never(success) == FALSE

\* Line 183: `if not success`, the series is aborted.
series_aborts(success) == ~success

\* One navigation config runs to its end.  After the last config launch()
\* returns True and the thread sets status running; a failed config or an
\* exception makes the thread reset the state.
launch_navigate(t) ==
    /\ launch_thread[t].pc = "navigating"
    /\ \E outcome \in NavigationOutcomes :
          LET executed == Append(launch_thread[t].executed,
                                 [config |-> launch_thread[t].config_index,
                                  outcome |-> outcome])
          IN  IF outcome = "error"
              THEN /\ launch_step' = After(executed, Raised)
                   /\ SETUP_STATE' = AfterLaunch(launch_step')
                   /\ ThreadEnds(t)
              ELSE IF series_aborts(outcome = "success")
              THEN /\ launch_step' = After(executed, Returned("failed"))
                   /\ SETUP_STATE' = AfterLaunch(launch_step')
                   /\ ThreadEnds(t)
              ELSE IF launch_thread[t].config_index < NumNavConfigs
              THEN /\ launch_thread' =
                         [launch_thread EXCEPT ![t].pc = "config",
                             ![t].config_index = launch_thread[t].config_index + 1,
                             ![t].executed = executed]
                   /\ launch_step' = NoLaunchStep
                   /\ UNCHANGED SETUP_STATE
              ELSE /\ launch_step' = After(executed, Returned("completed"))
                   /\ SETUP_STATE' = AfterLaunch(launch_step')
                   /\ ThreadEnds(t)
    /\ client_response' = NoReply
    /\ UNCHANGED <<cancel_navigation, process_running, start_req, stop_req,
                   heartbeat, stopped_launches>>
    /\ payload' = NoPayload
    /\ cancelled_launches' = CancelledLaunchesNext
    /\ held_sessions' = HeldSessionsNext
    /\ request_json' = NoRequest
    /\ superseded_launches' = SupersededLaunchesNext
    /\ launches_spawned' = LaunchesSpawnedNext
    /\ UNCHANGED orchSide

(***************************************************************************)
(* Client: stop                                                            *)
(***************************************************************************)
\* POST /api/stop, first statement: cancel_navigation.set().
stop_game_signal ==
    /\ stop_req.pc = "idle"
    /\ cancel_navigation' = TRUE
    /\ stop_req' = [stop_req EXCEPT !.pc = "signalled"]
    /\ stopped_launches' = IF SETUP_STATE.status = "starting" THEN InFlight ELSE {}
    /\ client_response' = NoReply
    /\ UNCHANGED <<SETUP_STATE, process_running, start_req, launch_thread,
                   heartbeat>>
    /\ payload' = NoPayload
    /\ cancelled_launches' = CancelledLaunchesNext
    /\ held_sessions' = HeldSessionsNext
    /\ request_json' = NoRequest
    /\ superseded_launches' = SupersededLaunchesNext
    /\ launches_spawned' = LaunchesSpawnedNext
    /\ launch_step' = NoLaunchStep
    /\ UNCHANGED orchSide

\* POST /api/stop, the read of the game: 400 when there is none.
stop_game_read ==
    /\ stop_req.pc = "signalled"
    /\ IF SETUP_STATE.current_game = None
       THEN /\ stop_req' = IdleRequest
            /\ client_response' = [handler |-> "stop", code |-> 400]
       ELSE /\ stop_req' = [pc |-> "terminating", game |-> SETUP_STATE.current_game]
            /\ client_response' = NoReply
    /\ UNCHANGED <<SETUP_STATE, cancel_navigation, process_running, start_req,
                   launch_thread, heartbeat, stopped_launches>>
    /\ payload' = NoPayload
    /\ cancelled_launches' = CancelledLaunchesNext
    /\ held_sessions' = HeldSessionsNext
    /\ request_json' = NoRequest
    /\ superseded_launches' = SupersededLaunchesNext
    /\ launches_spawned' = LaunchesSpawnedNext
    /\ launch_step' = NoLaunchStep
    /\ UNCHANGED orchSide

\* POST /api/stop, the termination and the reset: the process of a registered
\* game is terminated, or survives when access is denied (200 either way); an
\* unknown game raises, which is answered 500.  The state is reset on both
\* paths.
stop_game_terminate ==
    /\ stop_req.pc = "terminating"
    /\ IF stop_req.game \in RegisteredGames
       THEN /\ process_running' \in {FALSE, process_running}
            /\ client_response' = [handler |-> "stop", code |-> 200]
       ELSE /\ UNCHANGED process_running
            /\ client_response' = [handler |-> "stop", code |-> 500]
    /\ SETUP_STATE' = Reset(SETUP_STATE)
    /\ stop_req' = IdleRequest
    /\ UNCHANGED <<cancel_navigation, start_req, launch_thread, heartbeat,
                   stopped_launches>>
    /\ payload' = NoPayload
    /\ cancelled_launches' = CancelledLaunchesNext
    /\ held_sessions' = HeldSessionsNext
    /\ request_json' = NoRequest
    /\ superseded_launches' = SupersededLaunchesNext
    /\ launches_spawned' = LaunchesSpawnedNext
    /\ launch_step' = NoLaunchStep
    /\ UNCHANGED orchSide

(***************************************************************************)
(* Client: the heartbeat thread (_send_heartbeat)                          *)
(***************************************************************************)
\* Lines 85-89: the game is read and its process is looked for.  No game, or a
\* game the registry does not know, leads straight to the payload.
heartbeat_probe ==
    /\ heartbeat.pc = "wait"
    /\ heartbeat' =
          IF SETUP_STATE.current_game \in RegisteredGames
          THEN [IdleHeartbeat EXCEPT !.pc = "reconcile", !.running = process_running]
          ELSE [IdleHeartbeat EXCEPT !.pc = "payload"]
    /\ client_response' = NoReply
    /\ UNCHANGED <<SETUP_STATE, cancel_navigation, process_running, start_req,
                   stop_req, launch_thread, stopped_launches>>
    /\ payload' = NoPayload
    /\ cancelled_launches' = CancelledLaunchesNext
    /\ held_sessions' = HeldSessionsNext
    /\ request_json' = NoRequest
    /\ superseded_launches' = SupersededLaunchesNext
    /\ launches_spawned' = LaunchesSpawnedNext
    /\ launch_step' = NoLaunchStep
    /\ UNCHANGED orchSide

\* Lines 89-97: with the process running, the game is read again and a status
\* other than running becomes running; without it, a status running leads to
\* the reset.
heartbeat_reconcile ==
    /\ heartbeat.pc = "reconcile"
    /\ IF heartbeat.running
       THEN /\ heartbeat' = [heartbeat EXCEPT !.pc = "payload",
                                !.actual_game = SETUP_STATE.current_game]
            /\ SETUP_STATE' = IF SETUP_STATE.status # "running"
                              THEN [SETUP_STATE EXCEPT !.status = "running"]
                              ELSE SETUP_STATE
       ELSE /\ heartbeat' = [heartbeat EXCEPT !.pc =
                                IF SETUP_STATE.status = "running"
                                THEN "reset" ELSE "payload"]
            /\ UNCHANGED SETUP_STATE
    /\ client_response' = NoReply
    /\ UNCHANGED <<cancel_navigation, process_running, start_req, stop_req,
                   launch_thread, stopped_launches>>
    /\ payload' = NoPayload
    /\ cancelled_launches' = CancelledLaunchesNext
    /\ held_sessions' = HeldSessionsNext
    /\ request_json' = NoRequest
    /\ superseded_launches' = SupersededLaunchesNext
    /\ launches_spawned' = LaunchesSpawnedNext
    /\ launch_step' = NoLaunchStep
    /\ UNCHANGED orchSide

\* Lines 99-103: the reset after the warning that the process is gone.
heartbeat_reset ==
    /\ heartbeat.pc = "reset"
    /\ SETUP_STATE' = Reset(SETUP_STATE)
    /\ heartbeat' = [heartbeat EXCEPT !.pc = "payload"]
    /\ client_response' = NoReply
    /\ UNCHANGED <<cancel_navigation, process_running, start_req, stop_req,
                   launch_thread, stopped_launches>>
    /\ payload' = NoPayload
    /\ cancelled_launches' = CancelledLaunchesNext
    /\ held_sessions' = HeldSessionsNext
    /\ request_json' = NoRequest
    /\ superseded_launches' = SupersededLaunchesNext
    /\ launches_spawned' = LaunchesSpawnedNext
    /\ launch_step' = NoLaunchStep
    /\ UNCHANGED orchSide

\* Line 112: the payload's read of the status.
heartbeat_read_status ==
    /\ heartbeat.pc = "payload"
    /\ heartbeat' = [heartbeat EXCEPT !.pc = "send", !.status = SETUP_STATE.status]
    /\ client_response' = NoReply
    /\ UNCHANGED <<SETUP_STATE, cancel_navigation, process_running, start_req,
                   stop_req, launch_thread, stopped_launches>>
    /\ payload' = NoPayload
    /\ cancelled_launches' = CancelledLaunchesNext
    /\ held_sessions' = HeldSessionsNext
    /\ request_json' = NoRequest
    /\ superseded_launches' = SupersededLaunchesNext
    /\ launches_spawned' = LaunchesSpawnedNext
    /\ launch_step' = NoLaunchStep
    /\ UNCHANGED orchSide

\* Lines 114-126: the payload's read of the session id, and the post.
heartbeat_send ==
    /\ heartbeat.pc = "send"
    /\ payload' = [status |-> heartbeat.status,
                   current_game |-> heartbeat.actual_game,
                   session_id |-> SETUP_STATE.session_id]
    /\ heartbeat' = IdleHeartbeat
    /\ client_response' = NoReply
    /\ UNCHANGED <<SETUP_STATE, cancel_navigation, process_running, start_req,
                   stop_req, launch_thread, stopped_launches>>
    /\ cancelled_launches' = CancelledLaunchesNext
    /\ held_sessions' = HeldSessionsNext
    /\ request_json' = NoRequest
    /\ superseded_launches' = SupersededLaunchesNext
    /\ launches_spawned' = LaunchesSpawnedNext
    /\ launch_step' = NoLaunchStep
    /\ UNCHANGED orchSide

\* The game's process ends on its own (a crash, or the player quits).
process_exits ==
    /\ process_running
    /\ process_running' = FALSE
    /\ client_response' = NoReply
    /\ UNCHANGED <<SETUP_STATE, cancel_navigation, start_req, stop_req,
                   launch_thread, heartbeat, stopped_launches>>
    /\ payload' = NoPayload
    /\ cancelled_launches' = CancelledLaunchesNext
    /\ held_sessions' = HeldSessionsNext
    /\ request_json' = NoRequest
    /\ superseded_launches' = SupersededLaunchesNext
    /\ launches_spawned' = LaunchesSpawnedNext
    /\ launch_step' = NoLaunchStep
    /\ UNCHANGED orchSide

ClientInit ==
    /\ SETUP_STATE = InitialState
    /\ cancel_navigation = FALSE
    /\ process_running = FALSE
    /\ start_req = [r \in StartRequests |-> IdleRequest]
    /\ stop_req = IdleRequest
    /\ launch_thread = [t \in LaunchThreads |-> NoThread]
    /\ heartbeat = IdleHeartbeat
    /\ payload = NoPayload
    /\ client_response = NoReply
    /\ request_json = NoRequest
    /\ stopped_launches = {}
    /\ cancelled_launches = {}
    /\ launch_step = NoLaunchStep
    /\ held_sessions = {}
    /\ superseded_launches = {}
    /\ launches_spawned = 0

(***************************************************************************)
(* Navigation engine: data                                                 *)
(*                                                                         *)
(* A step of the model is one template probe or one key press; what the    *)
(* screen shows at a probe is the environment's choice.                    *)
(***************************************************************************)
\* A StepOption presses its key_press after its template matched, presses its
\* press_until_match before looking, or (key_press None) only waits.
OptionKinds == {"key_press", "press_until_match", "wait"}

\* Step.options holds at least one option.
StepShapes == UNION {[1..n -> OptionKinds] : n \in 1..MaxOptions}
StepSequences == UNION {[1..n -> StepShapes] : n \in 1..MaxSteps}

NoEvent == [kind |-> "none", step |-> 0, option |-> 0, matched |-> FALSE,
            how |-> "none", cancelled |-> FALSE]

NoKeyPresses == [current |-> 0, previous |-> 0]

\* The locals of execute_navigation_sequence at its first loop iteration.
NavStart == [pc |-> "step_begin", step_index |-> 0, call |-> "main",
             attempt |-> 0, option_index |-> 0, phase |-> "begin",
             consecutive_failures |-> 0, result |-> "none"]

\* A recovery that goes back to the first step of the sequence.
CurrentStep_from_first == IF nav.call = "previous" THEN 0 ELSE nav.step_index

\* The step the running attempt_step_options call works on.
CurrentStep == IF nav.call = "previous" THEN nav.step_index - 1 ELSE nav.step_index
CurrentOptions == steps[CurrentStep + 1]
CurrentKind == CurrentOptions[nav.option_index + 1]

\* The retry budget of the running attempt_step_options call.
Retries == IF nav.call = "previous" THEN previous_step_retries ELSE max_retries

\* A probe or a press of the current option; `cancelled` tells that it
\* belongs to the step of a loop iteration that began with cancel_navigation
\* set (the recovery call on the previous step is not counted).
Event(kind, matched, how) ==
    [kind |-> kind, step |-> CurrentStep, option |-> nav.option_index,
     matched |-> matched, how |-> how,
     cancelled |-> (begun_cancelled /\ nav.call # "previous")]

(***************************************************************************)
(* Navigation engine: control flow                                         *)
(***************************************************************************)
\* A threshold of three consecutive failures.
two_consecutive_failures_off_by_one(consecutive_failures) ==
    consecutive_failures >= 3

\* Line 313: the fail-fast test.
two_consecutive_failures(consecutive_failures) == consecutive_failures >= 2

\* The loop goes on to the next step, or the sequence ends with True.
NextStep(n) ==
    IF n.step_index + 1 < Len(steps)
    THEN [n EXCEPT !.pc = "step_begin", !.step_index = n.step_index + 1,
                   !.call = "main", !.attempt = 0, !.option_index = 0,
                   !.phase = "begin"]
    ELSE [n EXCEPT !.pc = "done", !.result = "True", !.phase = "begin"]

\* handle_step_failure returned (False, consecutive_failures + 1).
StepUnresolved(n) ==
    LET failures == n.consecutive_failures + 1 IN
    IF two_consecutive_failures(failures)
    THEN [n EXCEPT !.pc = "done", !.result = "False", !.phase = "begin",
                   !.consecutive_failures = failures]
    ELSE NextStep([n EXCEPT !.consecutive_failures = failures])

\* A new attempt_step_options call.
Call(n, call) ==
    [n EXCEPT !.call = call, !.attempt = 0, !.option_index = 0, !.phase = "begin"]

\* Recovery entered although the step matched.
needs_recovery_inverted(matched) == matched

\* Line 299: the step loop enters recovery when the step did not match.
needs_recovery(matched) == ~matched

\* A recovery that retries the step whatever the previous step came to.
recovery_fails_never(prev_matched) == FALSE

\* Line 379 of handle_step_failure: `if not prev_matched`, the recovery fails
\* without a further attempt of the step.
recovery_fails(prev_matched) == ~prev_matched

\* A recovered step that leaves the count of failures as it is.
failures_after_recovery_kept(consecutive_failures) == consecutive_failures

\* Line 398 of handle_step_failure: `return True, 0`.
failures_after_recovery(consecutive_failures) == 0

\* attempt_step_options returned `matched`: what its caller does next.
OptionsReturn(n, matched) ==
    CASE n.call = "main" ->
            IF needs_recovery(matched)
            THEN IF n.step_index = 0
                 THEN StepUnresolved(n)
                 ELSE Call(n, "previous")
            ELSE NextStep([n EXCEPT !.consecutive_failures = 0])
      [] n.call = "previous" ->
            IF recovery_fails(matched) THEN StepUnresolved(n) ELSE Call(n, "retry")
      [] OTHER ->
            IF matched
            THEN NextStep([n EXCEPT !.consecutive_failures =
                                       failures_after_recovery(n.consecutive_failures)])
            ELSE StepUnresolved(n)

\* A loop over the attempts that makes one attempt more than its budget.
NextOption_one_more_attempt(n) ==
    IF n.option_index + 1 < Len(CurrentOptions)
    THEN [n EXCEPT !.option_index = n.option_index + 1, !.phase = "begin"]
    ELSE IF n.attempt + 1 < Retries + 1
         THEN [n EXCEPT !.attempt = n.attempt + 1, !.option_index = 0,
                        !.phase = "begin"]
         ELSE OptionsReturn(n, FALSE)

\* The option did not match: the next option, the next attempt, or the call
\* returns False.
NextOption(n) ==
    IF n.option_index + 1 < Len(CurrentOptions)
    THEN [n EXCEPT !.option_index = n.option_index + 1, !.phase = "begin"]
    ELSE IF n.attempt + 1 < Retries
         THEN [n EXCEPT !.attempt = n.attempt + 1, !.option_index = 0,
                        !.phase = "begin"]
         ELSE OptionsReturn(n, FALSE)

\* A loop that goes on to the next option after an option has matched.
AfterOption_tries_next(n, matched) == NextOption(n)

\* Lines 455-477 of attempt_step_options: `if matched: ... return True`,
\* otherwise the loop over the options goes on.
AfterOption(n, matched) ==
    IF matched THEN OptionsReturn(n, TRUE) ELSE NextOption(n)

(***************************************************************************)
(* Navigation engine: the probes and the key presses                       *)
(***************************************************************************)
\* The action is executed whatever the probe found.
action_follows_always(matched) == TRUE

\* Line 524 of navigate_if_template_matches: the action is executed when the
\* probe reached the threshold (`matched`).
action_follows(matched) == matched

\* The first attempt of a step's first attempt_step_options call is over
\* without a match.
FirstAttemptOver ==
    /\ nav.call = "main"
    /\ nav.attempt = 0
    /\ nav.option_index + 1 = Len(CurrentOptions)

\* key_presses after the engine moved to n2 with the probe or press e: the
\* key_press action of a match-then-press option counts for the step it
\* belongs to, and when the loop goes on to the next step the count of its
\* step becomes that of the step before.
KeyPressesAfter(n2, e) ==
    LET counted ==
            IF e.kind = "press" /\ e.how = "key_press"
            THEN IF nav.call = "previous"
                 THEN [key_presses EXCEPT !.previous = @ + 1]
                 ELSE [key_presses EXCEPT !.current = @ + 1]
            ELSE key_presses
    IN  IF n2.step_index # nav.step_index
        THEN [current |-> 0, previous |-> counted.current]
        ELSE counted

\* The engine moves to n2 with the probe or press e, `missed` telling that e
\* is a probe that did not match.
Advance(n2, e, missed) ==
    /\ nav' = n2
    /\ prev_event' = event
    /\ event' = e
    /\ visits' = IF n2.pc = "options" /\ n2.call # nav.call
                 THEN Append(visits, IF n2.call = "previous"
                                     THEN n2.step_index - 1 ELSE n2.step_index)
                 ELSE visits
    /\ unresolved' = IF n2.consecutive_failures > nav.consecutive_failures
                     THEN unresolved \cup {nav.step_index}
                     ELSE unresolved
    /\ first_try' = (first_try /\ ~(missed /\ FirstAttemptOver))
    /\ key_presses' = KeyPressesAfter(n2, e)
    /\ UNCHANGED <<steps, begun_cancelled, cancel_navigation>>
    /\ UNCHANGED engineSide

\* Lines 287-297: an iteration of the step loop begins.
step_begin ==
    /\ nav.pc = "step_begin"
    /\ nav' = [nav EXCEPT !.pc = "options"]
    /\ visits' = Append(visits, nav.step_index)
    /\ begun_cancelled' = cancel_navigation
    /\ UNCHANGED <<steps, event, prev_event, unresolved, first_try,
                   cancel_navigation, key_presses>>
    /\ UNCHANGED engineSide

\* navigate_if_template_matches, the probe: a wait option that matched is
\* done, a key_press option that matched goes on to press.
probe ==
    /\ nav.pc = "options" /\ nav.phase = "begin"
    /\ CurrentKind \in {"key_press", "wait"}
    /\ \E matched \in BOOLEAN :
          Advance(IF action_follows(matched)
                  THEN IF CurrentKind = "key_press"
                       THEN [nav EXCEPT !.phase = "matched"]
                       ELSE AfterOption(nav, TRUE)
                  ELSE AfterOption(nav, FALSE),
                  Event("probe", matched, CurrentKind), ~matched)

\* An action after which the loop over the options goes on.
press_and_go_on ==
    /\ nav.pc = "options" /\ nav.phase = "matched"
    /\ Advance(NextOption(nav), Event("press", FALSE, "key_press"), FALSE)

\* navigate_if_template_matches, the action: execute_key_presses(key_press).
press ==
    /\ nav.pc = "options" /\ nav.phase = "matched"
    /\ Advance(AfterOption(nav, TRUE), Event("press", FALSE, "key_press"), FALSE)

\* navigate_press_until_match, lines 562-566: the key is pressed first.
press_first ==
    /\ nav.pc = "options" /\ nav.phase = "begin"
    /\ CurrentKind = "press_until_match"
    /\ Advance([nav EXCEPT !.phase = "pressed"],
               Event("press", FALSE, "press_until_match"), FALSE)

\* navigate_press_until_match, lines 568-582: the probe after the press.
probe_after_press ==
    /\ nav.pc = "options" /\ nav.phase = "pressed"
    /\ \E matched \in BOOLEAN :
          Advance(AfterOption(nav, matched),
                  Event("probe", matched, "press_until_match"), ~matched)

\* No navigation is running.
NavIdle ==
    /\ steps = <<>>
    /\ nav = [NavStart EXCEPT !.pc = "done"]
    /\ event = NoEvent
    /\ prev_event = NoEvent
    /\ visits = <<>>
    /\ unresolved = {}
    /\ first_try = TRUE
    /\ begun_cancelled = FALSE
    /\ key_presses = NoKeyPresses

\* execute_navigation_sequence is called on a sequence of steps.
NavInit ==
    /\ steps \in StepSequences
    /\ nav = NavStart
    /\ event = NoEvent
    /\ prev_event = NoEvent
    /\ visits = <<>>
    /\ unresolved = {}
    /\ first_try = TRUE
    /\ begun_cancelled = FALSE
    /\ key_presses = NoKeyPresses

\* The orchestrator has no machine in its table and the machine is idle.
Init == OrchInit /\ ClientInit /\ NavIdle

\* The command handlers and the launch threads of a machine on which no
\* orchestrator is registered: _send_heartbeat is not running.
ClientNext ==
    \/ \E data \in ConfigurePayloads : configure(data)
    \/ \E r \in StartRequests : start_game_check(r)
    \/ \E r \in StartRequests : start_game_spawn(r)
    \/ \E t \in LaunchThreads : launch_clear(t)
    \/ \E t \in LaunchThreads : launch_process(t)
    \/ \E t \in LaunchThreads : launch_config_begin(t)
    \/ \E t \in LaunchThreads : launch_navigate(t)
    \/ stop_game_signal
    \/ stop_game_read
    \/ stop_game_terminate
    \/ process_exits

ClientSpec == Init /\ [][ClientNext]_vars

\* A start request that arrives when no launch thread is in flight.
sequential_start_check == InFlight = {} /\ start_game_check(1)

\* A machine with the heartbeat thread running, whose orchestrator sends a
\* start request only after the previous launch has ended.
HeartbeatNext ==
    \/ \E data \in ConfigurePayloads : configure(data)
    \/ sequential_start_check
    \/ start_game_spawn(1)
    \/ \E t \in LaunchThreads : launch_clear(t)
    \/ \E t \in LaunchThreads : launch_process(t)
    \/ \E t \in LaunchThreads : launch_config_begin(t)
    \/ \E t \in LaunchThreads : launch_navigate(t)
    \/ stop_game_signal
    \/ stop_game_read
    \/ stop_game_terminate
    \/ heartbeat_probe
    \/ heartbeat_reconcile
    \/ heartbeat_reset
    \/ heartbeat_read_status
    \/ heartbeat_send
    \/ process_exits

HeartbeatSpec == Init /\ [][HeartbeatNext]_vars

\* The registry: heartbeats, service discovery and the passing of time.
RegistryNext ==
    \/ \E m \in Machines : receive_heartbeat(m, MachineId(m))
    \/ \E m \in Machines : add_service(m)
    \/ \E m \in Machines : remove_service(m)
    \/ Tick

RegistrySpec == Init /\ [][RegistryNext]_vars

\* The registry with every heartbeat handled on a thread of its own.
ConcurrentRegistryNext ==
    \/ \E m \in Machines : \E id \in ConfiguredIds(m) : heartbeat_lookup(m, id)
    \/ \E m \in Machines : heartbeat_assign(m)
    \/ \E m \in Machines : remove_service(m)
    \/ \E m \in Machines : add_service(m)

ConcurrentRegistrySpec == Init /\ [][ConcurrentRegistryNext]_vars

\* A fleet with one machine more than there are slots.
Fleet == 1..(NumSlots + 1)

\* The orchestrator after its start, before the first heartbeat of the fleet.
FleetInit ==
    /\ SLOTS = [i \in SlotNumbers |-> EmptySlot]
    /\ SETUP_TO_SLOT = [m \in Fleet |-> 0]
    /\ discovered_setups = {}
    /\ now = 0
    /\ sent = <<>>
    /\ response = NoResponse
    /\ request = <<>>
    /\ hb_handler = [m \in Machines |-> IdleHandler]
    /\ ClientInit /\ NavIdle

\* The registry receiving the heartbeats of that fleet.
FleetNext ==
    \/ \E m \in Fleet : receive_heartbeat(m, MachineId(m))
    \/ Tick

FleetSpec == FleetInit /\ [][FleetNext]_vars

\* The coordinator: the start handlers over a slot table fed by heartbeats.
CoordinatorNext ==
    \/ \E m \in Machines : receive_heartbeat(m, MachineId(m))
    \/ Tick
    \/ \E slot_numbers \in RequestLists : start_multiplayer(slot_numbers)
    \/ \E slot_number \in RequestSlots, mode \in {"singleplayer", "multiplayer"} :
          start_slot(slot_number, mode)

CoordinatorSpec == Init /\ [][CoordinatorNext]_vars

\* The orchestrator and the machine are idle and the engine is called.
EngineInit == OrchInit /\ ClientInit /\ NavInit

\* The navigation engine, and a stop request setting cancel_navigation while
\* it runs.
NavNext ==
    \/ step_begin
    \/ probe
    \/ press
    \/ press_first
    \/ probe_after_press
    \/ stop_game_signal

NavSpec == EngineInit /\ [][NavNext]_vars

(***************************************************************************)
(* Claims on the orchestrator                                              *)
(***************************************************************************)
IsStartHandler == response.handler \in {"start_multiplayer", "start_slot"}

ConfigureFailed ==
    \E i \in 1..Len(sent) : sent[i].kind = "configure" /\ sent[i].outcome # "ok"

\* C1 (two-phase atomicity): whenever the configure request to any slot of a
\* start request came back not-OK or raised, the handler sent no start request
\* to any slot, the other slots of the same request included.
C1_TwoPhaseAtomicity ==
    (IsStartHandler /\ ConfigureFailed)
        => \A j \in 1..Len(sent) : sent[j].kind # "start"

\* A multiplayer start in which one slot was configured and another was not.
C1_Witness ==
    /\ response.handler = "start_multiplayer"
    /\ response.code = 400
    /\ \E i, j \in 1..Len(sent) :
          /\ sent[i].kind = "configure" /\ sent[i].outcome = "ok"
          /\ sent[j].kind = "configure" /\ sent[j].outcome # "ok"
    /\ \A j \in 1..Len(sent) : sent[j].kind # "start"

\* The machine ids the slots named by the configure requests report.
ParticipantIds ==
    {SLOTS[sent[i].slot].hb_id : i \in {k \in 1..Len(sent) : sent[k].kind = "configure"}}

\* The configure requests went to pairwise different slots with different ids.
DistinctParticipants ==
    \A i, j \in 1..Len(sent) :
        (sent[i].kind = "configure" /\ sent[j].kind = "configure" /\ i # j)
            => /\ sent[i].slot # sent[j].slot
               /\ SLOTS[sent[i].slot].hb_id # SLOTS[sent[j].slot].hb_id

\* C2 (host election determinism): in a multiplayer start whose participants
\* are online and carry distinct machine ids, the participant with the minimum
\* id is configured as host and every other participant as join, whatever the
\* order of the request.
C2_HostIsMinimumId ==
    (response.handler = "start_multiplayer" /\ sent # <<>> /\ DistinctParticipants)
        => \A i \in 1..Len(sent) :
              sent[i].kind = "configure"
                 => sent[i].role = IF SLOTS[sent[i].slot].hb_id = Min(ParticipantIds)
                                   THEN "host" ELSE "join"

\* C10 (slot uniqueness): at every moment each slot is bound to at most one
\* machine and each machine occupies at most one slot.
C10_SlotUniqueness ==
    /\ \A m1, m2 \in Machines :
          (m1 # m2 /\ SETUP_TO_SLOT[m1] # 0) => SETUP_TO_SLOT[m1] # SETUP_TO_SLOT[m2]
    /\ \A s1, s2 \in SlotNumbers :
          (s1 # s2 /\ SLOTS[s1].setup_id # 0) => SLOTS[s1].setup_id # SLOTS[s2].setup_id

\* The step is the service-removed event of machine m.
Removed(m) == m \in discovered_setups /\ m \notin discovered_setups'

\* C11 (sticky binding): a machine that occupies slot s still occupies it
\* after every step that is not its own service removal, the heartbeats of
\* other machines included (the code has no eviction by timeout).
C11_StickyBinding ==
    [][\A m \in Machines : \A s \in SlotNumbers :
          (SLOTS[s].setup_id = m /\ ~Removed(m)) => SLOTS'[s].setup_id = m]_vars

\* The slot the resolution rule gives machine m (0: none).
ResolvedSlot(m) ==
    LET id == MachineId(m)
        free == {i \in SlotNumbers : SLOTS[i].setup_id = 0}
    IN  IF id \in SlotNumbers /\ SLOTS[id].setup_id \in {0, m}
        THEN id
        ELSE IF free = {} THEN 0 ELSE Min(free)

\* C12 (slot resolution rule): the first heartbeat of an unassigned machine
\* binds it to slot `id` when 1 <= id <= 4 and that slot is free or its own,
\* otherwise to the lowest free slot, and leaves it unassigned (503) only when
\* no slot is free.
C12_SlotResolutionRule ==
    [][/\ \A m \in Machines :
             (SETUP_TO_SLOT[m] = 0 /\ SETUP_TO_SLOT'[m] # 0)
                 => /\ SETUP_TO_SLOT'[m] = ResolvedSlot(m)
                    /\ SLOTS'[SETUP_TO_SLOT'[m]].setup_id = m
       /\ (response'.handler = "heartbeat" /\ response'.code = 503)
             => \A i \in SlotNumbers : SLOTS[i].setup_id # 0]_vars

\* Seconds since the heartbeat recorded in slot s was received.
Age(s) == now - SLOTS[s].last_seen

Occupied(s) == s \in SlotNumbers /\ SLOTS[s].setup_id # 0

\* C13 (liveness window): a slot is online exactly when it holds a machine
\* whose last heartbeat was received less than 15 seconds ago; a start handler
\* sends requests only to such machines, and refuses (400, nothing sent) a
\* request naming an occupied slot whose heartbeat is 15 seconds old or older.
C13_LivenessWindow ==
    /\ \A s \in SlotNumbers :
          is_online(SLOTS[s]) <=> (SLOTS[s].setup_id # 0 /\ Age(s) < 15)
    /\ \A i \in 1..Len(sent) : Occupied(sent[i].slot) /\ Age(sent[i].slot) < 15
    /\ (IsStartHandler
           /\ \E i \in 1..Len(request) : Occupied(request[i]) /\ Age(request[i]) >= 15)
          => (response.code = 400 /\ sent = <<>>)

\* A multiplayer start naming two occupied slots, one with a fresh heartbeat
\* and one whose heartbeat is exactly 15 seconds old, was refused.
C13_Witness ==
    /\ response.handler = "start_multiplayer" /\ response.code = 400
    /\ sent = <<>>
    /\ Len(request) = 2 /\ request[1] # request[2]
    /\ Occupied(request[1]) /\ Occupied(request[2])
    /\ \E i, j \in 1..2 : Age(request[i]) = 15 /\ Age(request[j]) < 15

\* The request names pairwise different slots.
RequestDistinct ==
    \A i, j \in 1..Len(request) : i # j => request[i] # request[j]

OnlineSlots == {s \in SlotNumbers : is_online(SLOTS[s])}
OnlineIds == {SLOTS[s].hb_id : s \in OnlineSlots}

\* The n lowest ids of the online machines.
LowestOnlineIds(n) ==
    {id \in OnlineIds : Cardinality({other \in OnlineIds : other < id}) < n}

\* The ids of the machines a request was sent to.
ContactedIds == {SLOTS[sent[i].slot].hb_id : i \in 1..Len(sent)}

\* C14 (participant selection): a multiplayer start for n players (a request
\* naming n different slots) that sends any request sends them to exactly the
\* n online machines with the lowest ids, and to no other machine.
C14_ParticipantSelection ==
    (response.handler = "start_multiplayer" /\ sent # <<>> /\ RequestDistinct)
        => ContactedIds = LowestOnlineIds(Len(request))

\* C15 (capacity precondition): a start request for more players than there
\* are online machines, or naming a slot that is invalid or not online, is
\* answered 400 before any configure or start request is sent.
C15_CapacityPrecondition ==
    (IsStartHandler
       /\ \/ Cardinality(OnlineSlots) < Len(request)
          \/ \E i \in 1..Len(request) : request[i] \notin OnlineSlots)
        => (response.code = 400 /\ sent = <<>>)

\* The machines selected by the request.
SelectedMachines == {SLOTS[request[i]].setup_id : i \in 1..Len(request)}

StartsSentTo(m) ==
    {k \in 1..Len(sent) : sent[k].kind = "start" /\ sent[k].setup_id = m}

ResultsOf(m) ==
    {k \in 1..Len(response.results) :
        SLOTS[response.results[k].slot].setup_id = m}

\* C16 (phase-2 isolation): when every selected machine was configured, each
\* of them is sent exactly one start request whatever the other start requests
\* came back with, the result list holds exactly one entry per selected
\* machine, and success_count is the number of entries with status success.
C16_Phase2Isolation ==
    (response.handler = "start_multiplayer" /\ response.code = 200)
        => /\ \A m \in SelectedMachines :
                 Cardinality(StartsSentTo(m)) = 1 /\ Cardinality(ResultsOf(m)) = 1
           /\ Len(response.results) = Cardinality(SelectedMachines)
           /\ response.success_count =
                 Cardinality({k \in 1..Len(response.results) :
                                 response.results[k].status = "success"})

\* The slots that hold machine m.
SlotsOf(m) == {s \in SlotNumbers : SLOTS[s].setup_id = m}

\* C18 (explicit removal frees the slot): right after the service-removed
\* event of a machine that is bound to a slot, that machine is bound to no
\* slot and is absent from the discovery table, and every other machine has
\* the slot binding it had before.
C18_RemovalFreesSlot ==
    [][\A m \in Machines :
          (Removed(m) /\ SETUP_TO_SLOT[m] # 0)
              => /\ SETUP_TO_SLOT'[m] = 0 /\ SlotsOf(m)' = {}
                 /\ m \notin discovered_setups'
                 /\ \A other \in Machines \ {m} :
                       /\ SETUP_TO_SLOT'[other] = SETUP_TO_SLOT[other]
                       /\ SlotsOf(other)' = SlotsOf(other)]_vars

\* C21 (atomic slot assignment): with the first heartbeats of unassigned
\* machines handled concurrently, the find-first-free-slot read and the slot
\* write of a heartbeat are atomic: the slot a handler binds after its search
\* for the first free slot is, at the write, still free or the machine's own,
\* so no other machine is bound to it and no binding is overwritten.
C21_AtomicSlotAssignment ==
    [][\A m \in Machines :
          (/\ hb_handler[m].pc = "assign" /\ hb_handler'[m].pc = "idle"
           /\ hb_handler[m].id \notin SlotNumbers)
              => SLOTS[hb_handler[m].slot_num].setup_id \in {0, m}]_vars

\* The positions of the request whose configure came back OK.
ConfiguredPositions ==
    {i \in 1..Len(sent) : sent[i].kind = "configure" /\ sent[i].outcome = "ok"}

Exhausted(m) ==
    /\ SETUP_TO_SLOT[m] = 0
    /\ \A s \in SlotNumbers : SLOTS[s].setup_id \notin {0, m}

\* C32 (slot exhaustion is non-destructive): when all four slots are occupied
\* by other machines, the heartbeat of an unassigned machine is answered, the
\* machine stays unassigned, and the occupant of every slot and every
\* machine-to-slot binding is as it was.
C32_ExhaustionNonDestructive ==
    [][\A m \in Fleet :
          (Exhausted(m) /\ receive_heartbeat(m, MachineId(m)))
              => /\ response'.handler = "heartbeat"
                 /\ SETUP_TO_SLOT'[m] = 0
                 /\ SETUP_TO_SLOT' = SETUP_TO_SLOT
                 /\ \A s \in SlotNumbers : SLOTS'[s].setup_id = SLOTS[s].setup_id
      ]_vars

ConfiguresSentTo(m) ==
    {k \in 1..Len(sent) : sent[k].kind = "configure" /\ sent[k].setup_id = m}

\* C36 (participants are distinct): within one start_multiplayer session each
\* machine is sent at most one configure request and at most one start
\* request, so that no machine is given two roles.
C36_ParticipantsDistinct ==
    response.handler = "start_multiplayer"
        => \A m \in Machines :
              /\ Cardinality(ConfiguresSentTo(m)) <= 1
              /\ Cardinality(StartsSentTo(m)) <= 1

\* C37 (a heartbeat only updates its sender): handling a heartbeat of machine
\* m leaves the record (heartbeat, and with it status and liveness) of every
\* slot occupied by another machine as it was, and the heartbeat stored in a
\* slot is one of the machine that occupies the slot.
C37_HeartbeatUpdatesOnlySender ==
    [][\A m \in Machines :
          receive_heartbeat(m, MachineId(m))
              => /\ \A s \in SlotNumbers :
                       SLOTS[s].setup_id \notin {0, m} => SLOTS'[s] = SLOTS[s]
                 /\ \A s \in SlotNumbers :
                       SLOTS'[s].setup_id # 0
                           => SLOTS'[s].hb_name = SLOTS'[s].setup_id
      ]_vars

(***************************************************************************)
(* Claims on the client                                                    *)
(***************************************************************************)
\* C3 (state invariant): the machine is in exactly one of the four statuses,
\* and its status is idle exactly when no game is set.
C3_IdleIffNoGame ==
    /\ SETUP_STATE.status \in Statuses
    /\ SETUP_STATE.status = "idle" <=> SETUP_STATE.current_game = None

\* C4 (stop is authoritative): a stop request arrived while a launch was in
\* flight in status starting; once the stop handler and that launch have both
\* finished, with no other command received since, the machine is idle with
\* no game set, whatever the navigation came back with.
C4_StopIsAuthoritative ==
    (/\ stopped_launches # {}
     /\ stopped_launches \cap InFlight = {}
     /\ stop_req.pc = "idle")
        => (SETUP_STATE.status = "idle" /\ SETUP_STATE.current_game = None)

\* Launch threads that have executed their cancel_navigation.clear().
PastClear == {t \in LaunchThreads : launch_thread[t].pc \notin {"none", "clear"}}

\* C17 (cancellation does not leak): whenever a launch thread that is past its
\* clear() can find cancel_navigation set, the event was set by a stop request
\* that arrived while that thread was in flight; a stop request processed
\* before the start request was accepted never reaches the launch.
C17_NoCancellationLeak ==
    cancel_navigation => PastClear \subseteq cancelled_launches

\* A launch thread has just cleared an event that a finished stop request had
\* left set before the thread was started, and goes on to launch.
C17_Witness ==
    /\ launch_step.kind = "clear" /\ launch_step.stale
    /\ stop_req.pc = "idle"
    /\ ~cancel_navigation
    /\ \E t \in LaunchThreads : launch_thread[t].pc = "launch"

\* C19 (cancelled is distinguishable): when launch() returns because it found
\* the cancellation event set, the value it returns differs from the value it
\* returns when a navigation config failed.
C19_CancelledIsDistinguishable ==
    (launch_step.kind = "return" /\ launch_step.cause = "cancelled")
        => launch_step.value # LaunchReturn("failed")

\* C20 (no torn heartbeat): the (status, session_id) pair of every heartbeat
\* payload is a pair that the machine state held at one instant between the
\* payload's read of the status and its post: the session id of the payload
\* is one the state held together with the status of the payload.
C20_NoTornHeartbeat ==
    payload # NoPayload => payload.session_id \in held_sessions

\* The step is one of the resets: the one of a stop request, the one of a
\* launch thread whose launch() did not return True, or the one of the
\* heartbeat thread that found the process of a running game gone.
ResetStep ==
    \/ stop_req.pc = "terminating" /\ stop_req'.pc = "idle"
    \/ launch_step'.kind \in {"return", "raise"} /\ launch_step'.value # "True"
    \/ heartbeat.pc = "reset" /\ heartbeat'.pc = "payload"

\* C22 (reset clears everything): immediately after a reset caused by a stop,
\* by a failed launch or by the heartbeat reconciliation, status is idle and
\* current_game, session_id, role, player_count and host_ip are all None.
C22_ResetClearsEverything ==
    [][ResetStep =>
          /\ SETUP_STATE'.status = "idle"
          /\ SETUP_STATE'.current_game = None
          /\ SETUP_STATE'.session_id = None
          /\ SETUP_STATE'.role = None
          /\ SETUP_STATE'.player_count = None
          /\ SETUP_STATE'.host_ip = None]_vars

\* C23 (configure always succeeds): from any prior status and for any game
\* value, configure sets current_game, session_id, role, player_count and
\* host_ip to exactly the supplied values, sets status to configured, and
\* reports success.
C23_ConfigureAlwaysSucceeds ==
    client_response.handler = "configure"
        => /\ client_response.code = 200
           /\ SETUP_STATE = [status |-> "configured",
                             current_game |-> request_json.game,
                             session_id |-> request_json.session_id,
                             role |-> request_json.role,
                             player_count |-> request_json.player_count,
                             host_ip |-> request_json.host_ip]

\* A configure request naming a game the registry does not know was just
\* handled while a launch was in flight and the game's process was running.
C23_Witness ==
    /\ client_response = [handler |-> "configure", code |-> 200]
    /\ request_json.game \notin RegisteredGames
    /\ SETUP_STATE.current_game = request_json.game
    /\ SETUP_STATE.status = "configured"
    /\ InFlight # {}
    /\ process_running

\* C24 (stop response): a stop request that found a game set (status
\* configured, starting or running) is answered 200 whatever the termination
\* of the process came to, and a stop request is answered 400 only when it
\* found no game set.
C24_StopResponse ==
    [][client_response'.handler = "stop"
          => IF stop_req.pc = "terminating"
             THEN client_response'.code = 200
             ELSE /\ client_response'.code = 400
                  /\ SETUP_STATE.current_game = None]_vars

\* The configs were run in listed order, and none after one that did not
\* return success.
InListedOrder(executed) ==
    \A i \in 1..Len(executed) :
        /\ executed[i].config = i
        /\ i < Len(executed) => executed[i].outcome = "success"

\* C25 (navigation series is all-or-nothing): launch() executes the
\* navigation configs of a role in listed order, executes no later config once
\* one config has returned failure, and returns success only if every config
\* of the series returned success.
C25_SeriesAllOrNothing ==
    /\ \A t \in LaunchThreads :
          /\ InListedOrder(launch_thread[t].executed)
          /\ \A i \in 1..Len(launch_thread[t].executed) :
                launch_thread[t].executed[i].outcome = "success"
    /\ launch_step.kind \in {"return", "raise"}
          => InListedOrder(launch_step.executed)
    /\ (launch_step.kind = "return" /\ launch_step.value = "True")
          => /\ Len(launch_step.executed) = NumNavConfigs
             /\ \A i \in 1..NumNavConfigs :
                   launch_step.executed[i].outcome = "success"

\* launch() has just returned False because the first config of a series of
\* several failed: no later config was run and the state was reset.
C25_Witness ==
    /\ launch_step.kind = "return" /\ launch_step.cause = "failed"
    /\ launch_step.value = "False"
    /\ Len(launch_step.executed) = 1
    /\ NumNavConfigs > 1
    /\ launch_step.executed[1] = [config |-> 1, outcome |-> "failure"]
    /\ SETUP_STATE.status = "idle"

\* C9 (start refused unless configured): a start request goes past the status
\* check only in status configured, and then sets the status to starting and
\* starts the launch thread before it answers 200; in any other status it is
\* answered 400, starts no launch and leaves the state unchanged.
C9_StartOnlyWhenConfigured ==
    [][/\ \A r \in StartRequests :
             (start_req[r].pc = "idle" /\ start_req'[r].pc = "checked")
                => SETUP_STATE.status = "configured"
       /\ (client_response'.handler = "start" /\ client_response'.code = 400)
             => /\ SETUP_STATE.status # "configured"
                /\ UNCHANGED <<SETUP_STATE, launch_thread, start_req>>
       /\ (client_response'.handler = "start" /\ client_response'.code = 200)
             => /\ SETUP_STATE'.status = "starting"
                /\ \E t \in LaunchThreads :
                      launch_thread[t].pc = "none" /\ launch_thread'[t].pc = "clear"
      ]_vars

\* A start request was just refused while a launch was in flight.
C9_Witness ==
    /\ client_response = [handler |-> "start", code |-> 400]
    /\ SETUP_STATE.status = "starting"
    /\ InFlight # {}

\* The launch thread t ends in this step.
LaunchEnds(t) == launch_thread[t].pc # "none" /\ launch_thread'[t].pc = "none"

C34_StaleLaunchKeepsNewSession ==
    [][\A t \in superseded_launches :
          LaunchEnds(t)
              => /\ SETUP_STATE'.status = SETUP_STATE.status
                 /\ SETUP_STATE'.current_game = SETUP_STATE.current_game
                 /\ SETUP_STATE'.session_id = SETUP_STATE.session_id
                 /\ SETUP_STATE'.role = SETUP_STATE.role
      ]_vars

\* C35 (at most one launch per configuration): whatever the interleaving of
\* the start requests that follow one configure request, at most one of them
\* starts a launch thread and is answered with success.
C35_OneLaunchPerConfigure ==
    [][Spawns => launches_spawned = 0]_vars

\* C38 (running is entered only from starting): the status becomes running
\* only in a step in which a launch thread's launch() returns True, and only
\* from the status starting; configure, the heartbeat thread and stop never
\* move the status to running.
C38_RunningOnlyFromStarting ==
    [][(SETUP_STATE.status # "running" /\ SETUP_STATE'.status = "running")
          => /\ SETUP_STATE.status = "starting"
             /\ launch_step'.kind = "return" /\ launch_step'.value = "True"
      ]_vars

(***************************************************************************)
(* Claims on the navigation engine                                         *)
(***************************************************************************)
NavDone == nav.pc = "done"

\* C5 (cancellation precedence): when the cancellation signal was set before
\* a navigation step began, the engine performs no key press of that step or
\* of a later one, and returns a cancelled result.
C5_CancellationPrecedence ==
    /\ ~(event.kind = "press" /\ event.cancelled)
    /\ (NavDone /\ begun_cancelled) => nav.result = "cancelled"

\* C6 (fail-fast): once two consecutive steps have each stayed unresolved
\* after their recovery attempts, the engine has returned failure and has
\* attempted no later step.
C6_FailFast ==
    \A k \in unresolved :
        (k + 1) \in unresolved
            => /\ NavDone
               /\ nav.result = "False"
               /\ \A j \in 1..Len(visits) : visits[j] <= k + 1

\* Two consecutive steps stayed unresolved in a sequence that has a later step.
C6_Witness ==
    \E k \in unresolved : (k + 1) \in unresolved /\ Len(steps) > k + 2

C8_NoUnjustifiedAction ==
    /\ event.kind = "press" => event.how \in {"key_press", "press_until_match"}
    /\ (event.kind = "press" /\ event.how = "key_press")
          => /\ prev_event.kind = "probe" /\ prev_event.matched
             /\ prev_event.step = event.step /\ prev_event.option = event.option
    /\ (prev_event.kind = "press" /\ prev_event.how = "press_until_match")
          => /\ event.kind = "probe"
             /\ event.step = prev_event.step /\ event.option = prev_event.option

\* Both patterns occurred back to back: a press_until_match press and its
\* probe, then, later, a key_press right after its matching probe.
C8_Witness ==
    /\ event.kind = "press" /\ event.how = "key_press"
    /\ prev_event.kind = "probe" /\ prev_event.matched
    /\ \E i \in 1..Len(steps) : \E o \in 1..Len(steps[i]) :
          steps[i][o] = "press_until_match" /\ i - 1 < event.step

\* The engine is inside handle_step_failure, in one of its two
\* attempt_step_options calls.
Recovering == nav.pc = "options" /\ nav.call \in {"previous", "retry"}

\* The step is a probe or a key press of the engine.
EngineActs == nav' # nav /\ nav.pc = "options"

\* C26 (recovery idempotence): while recovering from a failure of step i
\* (retrying step i-1 and then step i), the engine performs no probe and no
\* key press that belongs to a step with an index lower than i-1: what it does
\* belongs to step i-1 while step i-1 is retried and to step i afterwards.
C26_RecoveryIdempotence ==
    [][(Recovering /\ EngineActs)
          => /\ event'.kind \in {"probe", "press"}
             /\ event'.step >= nav.step_index - 1
             /\ event'.step = IF nav.call = "previous"
                              THEN nav.step_index - 1 ELSE nav.step_index]_vars

\* The third step of a sequence failed, the key of the second step was
\* pressed again on a match, and the third step is about to be retried: the
\* first step was left alone.
C26_Witness ==
    /\ nav.pc = "options" /\ nav.call = "retry" /\ nav.step_index = 2
    /\ event.kind = "press" /\ event.step = 1
    /\ prev_event.kind = "probe" /\ prev_event.step = 1 /\ prev_event.matched

\* The step is a probe or a key press within one attempt_step_options call
\* that goes on after it.
CallGoesOn ==
    /\ EngineActs /\ nav'.pc = "options"
    /\ nav'.call = nav.call /\ nav'.step_index = nav.step_index

\* The options of an attempt are evaluated in listed order: from an option
\* the engine goes to the one listed next, and from the last option to the
\* first option of the next attempt.
InListedOptionOrder ==
    CallGoesOn
        => \/ /\ nav'.option_index = nav.option_index
              /\ nav'.attempt = nav.attempt /\ nav'.phase # nav.phase
           \/ /\ nav'.option_index = nav.option_index + 1
              /\ nav'.attempt = nav.attempt
           \/ /\ nav'.option_index = 0 /\ nav'.attempt = nav.attempt + 1
              /\ nav.option_index + 1 = Len(steps[event'.step + 1])

\* The option of the step just taken has won: its probe matched and its
\* action, if it has one to perform after the match, was performed.
OptionWon ==
    /\ EngineActs
    /\ \/ event'.kind = "press" /\ event'.how = "key_press"
       \/ event'.kind = "probe" /\ event'.matched /\ event'.how # "key_press"

\* The winner's action is performed exactly once and no option is evaluated
\* after it in the attempt: a matched key_press option is followed by its one
\* press, and after the winner the attempt_step_options call is over.
WinnerEndsAttempt ==
    /\ (EngineActs /\ event'.kind = "probe" /\ event'.matched
           /\ event'.how = "key_press")
          => (nav'.phase = "matched" /\ CallGoesOn)
    /\ (EngineActs /\ nav.phase = "matched")
          => (event'.kind = "press" /\ event'.how = "key_press"
              /\ event'.step = event.step /\ event'.option = event.option)
    /\ OptionWon => ~CallGoesOn

\* C27 (first matching option wins), as stated: within one attempt of a
\* multi-option step the options are evaluated in listed order, the first
\* option whose probe reaches the threshold has its action performed exactly
\* once, the action of an option whose probe was below the threshold is never
\* performed (every key press follows a matched probe of its option), and the
\* options listed after the winner are not evaluated in that attempt.
C27_FirstMatchWins_AsStated ==
    [][/\ InListedOptionOrder
       /\ WinnerEndsAttempt
       /\ (EngineActs /\ event'.kind = "press")
             => /\ event.kind = "probe" /\ event.matched
                /\ event.step = event'.step /\ event.option = event'.option
      ]_vars

\* C27 (first matching option wins), amended: within one attempt the options
\* are evaluated in listed order, the first option that succeeds has its
\* action performed exactly once and ends the attempt, and the key_press of
\* an option whose probe was below the threshold is never performed; the
\* press_until_match of an option is performed before its probe, whatever the
\* probe then finds.
C27_FirstMatchWins ==
    [][/\ InListedOptionOrder
       /\ WinnerEndsAttempt
       /\ (EngineActs /\ event'.kind = "press" /\ event'.how = "key_press")
             => /\ event.kind = "probe" /\ event.matched
                /\ event.step = event'.step /\ event.option = event'.option
       /\ (EngineActs /\ event'.kind = "press" /\ event'.how = "press_until_match")
             => (nav.phase = "begin" /\ nav'.phase = "pressed" /\ CallGoesOn)
       /\ (EngineActs /\ nav.phase = "pressed")
             => (event'.kind = "probe" /\ event'.how = "press_until_match"
                 /\ event'.step = event.step /\ event'.option = event.option)
      ]_vars

\* In the first attempt of a step with two key_press options the second
\* option has just won: its key was pressed once, after its probe matched,
\* and the key of the first option was not pressed.
C27_Witness ==
    /\ event.kind = "press" /\ event.how = "key_press" /\ event.option = 1
    /\ prev_event.kind = "probe" /\ prev_event.matched
    /\ prev_event.step = event.step /\ prev_event.option = 1
    /\ steps[event.step + 1] = <<"key_press", "key_press">>
    /\ first_try
    /\ Len(visits) = 1

\* The attempt_step_options call `call` returns with the step just taken,
\* having matched or not.
CallReturns(call, matched) ==
    /\ EngineActs /\ nav.call = call /\ ~CallGoesOn
    /\ matched = ~(event'.kind = "probe" /\ ~event'.matched)

\* The step loop goes on after step i: to step i+1, or to `return True`.
GoesOnAfter(i) ==
    IF i + 1 < Len(steps)
    THEN nav'.pc = "step_begin" /\ nav'.step_index = i + 1
    ELSE nav'.pc = "done" /\ nav'.result = "True"

\* C28 (recovered step counts as success): when step i has failed all its
\* max_retries attempts, step i-1 has matched within previous_step_retries
\* attempts and the retried step i matches within max_retries attempts, step
\* i is treated as successful: no failure is recorded for it, the loop goes on
\* after it, and consecutive_failures is 0, whatever it was before.
C28_RecoveredStepSucceeds ==
    [][CallReturns("retry", TRUE)
          => /\ nav'.consecutive_failures = 0
             /\ unresolved' = unresolved
             /\ nav.step_index \notin unresolved'
             /\ GoesOnAfter(nav.step_index)]_vars

\* The first step stayed failed, the second step failed, was recovered and
\* counted as a success, and the third step stayed failed: the two failures
\* did not combine and the sequence ended with True.
C28_Witness ==
    /\ NavDone /\ nav.result = "True"
    /\ Len(steps) = 3
    /\ unresolved = {0, 2}
    /\ nav.consecutive_failures = 1
    /\ Len(visits) >= 4
    /\ visits[2] = 1 /\ visits[3] = 0 /\ visits[4] = 1

\* C29 (recovery gating): after step i has failed all its max_retries
\* attempts, step i is attempted again only if i > 0 and step i-1 matched
\* within previous_step_retries attempts; for i = 0, or when step i-1 did not
\* match, a failure is recorded (consecutive_failures goes up by exactly 1)
\* without any further attempt of step i.
C29_RecoveryGating ==
    [][/\ (EngineActs /\ nav'.call = "retry" /\ nav.call # "retry")
             => (nav.step_index > 0 /\ CallReturns("previous", TRUE))
       /\ (CallReturns("main", FALSE) /\ nav.step_index > 0)
             => /\ nav'.pc = "options" /\ nav'.call = "previous"
                /\ nav'.step_index = nav.step_index
                /\ nav'.consecutive_failures = nav.consecutive_failures
       /\ (\/ CallReturns("main", FALSE) /\ nav.step_index = 0
           \/ CallReturns("previous", FALSE))
             => /\ nav'.consecutive_failures = nav.consecutive_failures + 1
                /\ nav'.pc \in {"step_begin", "done"}
                /\ nav'.pc = "step_begin" => nav'.step_index = nav.step_index + 1
                /\ nav.step_index \in unresolved'
                /\ visits' = visits
      ]_vars

\* The first step failed and had no step to go back to; the second step
\* failed and the first step did not match when it was retried: each failure
\* was recorded without a further attempt of the failed step.
C29_Witness ==
    /\ NavDone /\ nav.result = "False"
    /\ unresolved = {0, 1}
    /\ visits = <<0, 1, 0>>
    /\ nav.consecutive_failures = 2

\* C30 (the return value of execute_navigation_sequence): whenever the
\* sequence returns True, every step of it, the last one included, was
\* matched, on its own attempts or after recovery: no step stayed failed.
C30_TrueMeansAllStepsMatched ==
    (NavDone /\ nav.result = "True") => unresolved = {}

\* The attempt rounds a step visit may make: those of the first call, of the
\* recovery call on the previous step and of the call after the recovery.
RoundsPerVisit == max_retries + previous_step_retries + max_retries

\* The attempt rounds begun so far in the running step visit, at most: the
\* calls that came before the running one count with their whole budget.
RoundsBegun ==
    CASE nav.call = "main" -> nav.attempt + 1
      [] nav.call = "previous" -> max_retries + nav.attempt + 1
      [] OTHER -> max_retries + previous_step_retries + nav.attempt + 1

\* The probes and presses of one step visit, at most, and one for its begin.
VisitWeight == 2 + RoundsPerVisit * MaxOptions * 2

\* How far the running step visit has come.
VisitProgress ==
    IF nav.pc = "step_begin"
    THEN 0
    ELSE 1 + (RoundsBegun - 1) * MaxOptions * 2 + nav.option_index * 2
           + (IF nav.phase = "begin" THEN 0 ELSE 1)

\* A measure of what execute_navigation_sequence has left to do.
Remaining ==
    IF nav.pc = "done"
    THEN 0
    ELSE (Len(steps) - nav.step_index) * VisitWeight - VisitProgress

\* The loop is at a step of the sequence that it has not visited before, and
\* the running call is within its budget of attempts.
WithinBudget ==
    nav.pc # "done"
        => /\ nav.step_index < Len(steps)
           /\ nav.pc = "step_begin"
                  => \A k \in 1..Len(visits) : visits[k] < nav.step_index
           /\ nav.pc = "options"
                  => /\ nav.attempt < Retries
                     /\ nav.option_index < Len(CurrentOptions)
                     /\ RoundsBegun <= RoundsPerVisit

\* C39 (navigation always terminates): whatever the probes find, every step
\* of the engine brings execute_navigation_sequence closer to its return; it
\* visits each of the n steps at most once, in order, and a step visit makes
\* at most max_retries + previous_step_retries + max_retries attempt rounds.
C39_NavigationTerminates ==
    [][nav' # nav
          => /\ Remaining' < Remaining
             /\ Remaining' >= 0
             /\ WithinBudget'
      ]_vars

\* The last attempt round of the call after the recovery, in the visit of the
\* last step of a sequence of MaxSteps steps: both bounds are reached.
C39_Witness ==
    /\ Len(steps) = MaxSteps
    /\ nav.pc = "options" /\ nav.step_index = MaxSteps - 1
    /\ nav.call = "retry" /\ nav.attempt = max_retries - 1
    /\ RoundsBegun = RoundsPerVisit
    /\ nav.option_index + 1 = Len(CurrentOptions)

\* C40 (bounded repetition of a match-then-press action): in one run the
\* key_press action of a step is executed at most once while the step is the
\* one the loop is at, and at most twice in total, the second time when the
\* step is run again as the previous step in the recovery of the next one.
C40_BoundedKeyPresses ==
    key_presses.current <= 1 /\ key_presses.previous <= 2

\* The key_press action of a step has just been executed a second time, in
\* the recovery of the step after it.
C40_Witness ==
    /\ key_presses.previous = 2
    /\ event.kind = "press" /\ event.how = "key_press"
    /\ event.step = nav.step_index - 1
    /\ nav.call = "retry"

====
